---- MODULE Spec2Model ----
(***************************************************************************)
(* Model of app.py, the Streamlit script of the Hall-Yarborough Z-factor   *)
(* calculator.  Streamlit re-executes the whole script, top to bottom, on  *)
(* every widget event: one action per kind of event, each running the      *)
(* script once on the current contents of the six text fields.             *)
(*                                                                         *)
(* Numbers.  The texts a field can hold are short decimal numerals; the    *)
(* value float() gives them is kept as the exact fraction n/d (d = 0 for   *)
(* float("inf")).  Range checks, P + 1000, int() and == on such values are *)
(* exact in double precision, so they are modelled with exact integer      *)
(* arithmetic, pressures in tenths of a psi.  The correlation arithmetic   *)
(* of lines 120-126 and 163-167 rounds after every operation; it is        *)
(* modelled by binary floating point with round-to-nearest-even at a       *)
(* significand of FloatBits bits (TLC's integers are 32 bits wide, so the  *)
(* 53 bits of a double do not fit).                                        *)
(***************************************************************************)
EXTENDS Integers, Sequences, FiniteSets, TLC

VARIABLES fields, run

vars == <<fields, run>>

(***************************************************************************)
(* Floating point: a finite value is m * 2^e with 2^(FloatBits-1) <= |m| < *)
(* 2^FloatBits, or m = 0 and e = 0.                                        *)
(***************************************************************************)
FloatBits == 11

RECURSIVE Pow2(_)
Pow2(k) == IF k <= 0 THEN 1 ELSE 2 * Pow2(k - 1)

\* The bounds of a normalised significand, and of one with a rounding bit.
SigMin == Pow2(FloatBits - 1)

SigMax == Pow2(FloatBits)

SigMax2 == Pow2(FloatBits + 1)

QuotMin == Pow2(26)

Abs(x) == IF x < 0 THEN -x ELSE x

Sign(x) == IF x < 0 THEN -1 ELSE 1

Fin(m, e) == [k |-> "fin", m |-> m, e |-> e]

Inf == [k |-> "inf", m |-> 1, e |-> 0]

NaN == [k |-> "nan", m |-> 0, e |-> 0]

Zero == Fin(0, 0)

\* The float nearest to M * 2^E, M > 0: M is scaled up, exactly, to FloatBits
\* bits, or cut down to FloatBits + 1 bits with "sticky" set once a nonzero
\* bit has been dropped, and then rounded to nearest, ties to even.  (The
\* steps of 8 bits only shorten the recursion.)
RECURSIVE RoundPos(_, _, _)
RoundPos(M, E, sticky) ==
    IF M < SigMin
    THEN (IF 256 * M < SigMax THEN RoundPos(256 * M, E - 8, sticky)
          ELSE RoundPos(2 * M, E - 1, sticky))
    ELSE IF M >= SigMax2
    THEN (IF M \div 256 >= SigMax2
          THEN RoundPos(M \div 256, E + 8, sticky \/ M % 256 # 0)
          ELSE RoundPos(M \div 2, E + 1, sticky \/ M % 2 = 1))
    ELSE IF M < SigMax THEN Fin(M, E)
    ELSE LET q  == M \div 2
             up == M % 2 = 1 /\ (sticky \/ q % 2 = 1)
             r  == IF up THEN q + 1 ELSE q
         IN  IF r = SigMax THEN Fin(r \div 2, E + 2) ELSE Fin(r, E + 1)

Round(M, E) ==
    IF M = 0 THEN Zero
    ELSE LET r == RoundPos(Abs(M), E, FALSE) IN Fin(Sign(M) * r.m, r.e)

\* The float nearest to (n / d) * 2^E, for integers n and d > 0: n is scaled
\* up until the quotient has bits to spare, the remainder is the sticky bit.
RECURSIVE RoundQuot(_, _, _)
RoundQuot(n, d, E) ==
    IF n = 0 THEN Zero
    ELSE IF Abs(n) < QuotMin \div 256 THEN RoundQuot(256 * n, d, E - 8)
    ELSE IF Abs(n) < QuotMin THEN RoundQuot(2 * n, d, E - 1)
    ELSE LET q == Abs(n) \div d
             s == IF Abs(n) % d = 0 THEN 0 ELSE 1
             r == RoundPos(2 * q + s, E - 1, FALSE)
         IN  Fin(Sign(n) * r.m, r.e)

Neg(a) == IF a.k = "fin" THEN Fin(-a.m, a.e) ELSE a

Fmul(a, b) ==
    IF a.k = "nan" \/ b.k = "nan" THEN NaN
    ELSE IF a.k = "inf" \/ b.k = "inf"
         THEN (IF a.m = 0 \/ b.m = 0 THEN NaN ELSE Inf)
    ELSE Round(a.m * b.m, a.e + b.e)

\* b is never zero where the script divides (see RunScript).
Fdiv(a, b) ==
    IF a.k = "nan" \/ b.k = "nan" THEN NaN
    ELSE IF a.k = "inf" THEN (IF b.k = "inf" THEN NaN ELSE Inf)
    ELSE IF b.k = "inf" THEN Zero
    ELSE LET q == RoundQuot(Abs(a.m), Abs(b.m), a.e - b.e)
         IN  IF Sign(a.m) = Sign(b.m) THEN q ELSE Neg(q)

Fadd(a, b) ==
    IF a.k = "nan" \/ b.k = "nan" THEN NaN
    ELSE IF a.k = "inf" \/ b.k = "inf" THEN Inf
    ELSE IF a.m = 0 THEN b
    ELSE IF b.m = 0 THEN a
    ELSE LET big   == IF a.e >= b.e THEN a ELSE b
             small == IF a.e >= b.e THEN b ELSE a
             d     == big.e - small.e
         IN  IF d > FloatBits + 3 THEN big
             ELSE Round(big.m * Pow2(d) + small.m, small.e)

Fsub(a, b) == Fadd(a, Neg(b))

\* A decimal literal or parsed numeral n/d as a float (d = 0: infinity).
Lit(n, d) == IF d = 0 THEN Inf ELSE RoundQuot(n, d, 0)

One == Lit(1, 1)

\* The float literals of lines 120-126 and 163.
K169_2 == Lit(1692, 10)

K349_5 == Lit(3495, 10)

K74_0 == Lit(74, 1)

K756_8 == Lit(7568, 10)

K131_0 == Lit(131, 1)

K3_6 == Lit(36, 10)

K120 == Lit(120, 1)

K15 == Lit(15, 1)

K304_2 == Lit(3042, 10)

K459_67 == Lit(45967, 100)

\* The odd significand and exponent of a finite nonzero float: the same
\* pair whatever FloatBits is.
RECURSIVE Canon(_, _)
Canon(m, e) == IF m % 2 = 0 THEN Canon(m \div 2, e + 1) ELSE <<m, e>>

\* libm pow at the non-trivial arguments the model reaches, <<odd significand,
\* exponent, exponent numerator, exponent denominator>> |-> nearest float:
\* 0.5 ** 0.9 = 0.53588..., 0.5 ** 1.6 = 0.32987..., 0.5 ** 0.5 = 0.70710...
PowTable ==
    ( <<1, -1, 9, 10>> :> <<1097, -11>> ) @@
    ( <<1, -1, 16, 10>> :> <<1351, -12>> ) @@
    ( <<1, -1, 5, 10>> :> <<1448, -11>> )

RECURSIVE IntPow(_, _)
IntPow(x, n) == IF n = 1 THEN x ELSE Fmul(IntPow(x, n - 1), x)

\* x ** (an / ad) for a finite x >= 0 (0 ** a = 0 and 1 ** a = 1 for a > 0).
Pow(x, an, ad) ==
    IF x.m = 0 THEN Zero
    ELSE IF x = One THEN One
    ELSE IF ad = 1 THEN IntPow(x, an)
    ELSE LET c == Canon(x.m, x.e)
             v == PowTable[<<c[1], c[2], an, ad>>]
         IN  Round(v[1], v[2])

(***************************************************************************)
(* Lines 117-126: Sutton's correlation and the Wichert-Aziz correction.    *)
(***************************************************************************)
Sutton_Tpc(SG) ==
    Fsub(Fadd(K169_2, Fmul(K349_5, SG)),
         Fmul(K74_0, Pow(SG, 2, 1)))

Sutton_Ppc(SG) ==
    Fsub(Fsub(K756_8, Fmul(K131_0, SG)),
         Fmul(K3_6, Pow(SG, 2, 1)))

WichertAziz_e(h2s, co2, n2) ==
    LET x == Fadd(n2, co2)
    IN  Fadd(Fmul(K120, Fsub(Pow(x, 9, 10), Pow(x, 16, 10))),
             Fmul(K15, Fsub(Pow(h2s, 5, 10), Pow(h2s, 4, 1))))

Corr_Tpc(Tpc, e) == Fsub(Tpc, e)

Corr_Ppc(Ppc, Tpc, Tpc_corr, h2s) ==
    Fdiv(Fmul(Ppc, Tpc_corr),
         Fadd(Tpc, Fmul(Fmul(h2s, Fsub(One, h2s)),
                        Fsub(K304_2, Tpc_corr))))

Fless(a, b) == a.k = "fin" /\ b.k = "fin" /\ Fsub(a, b).m < 0

(***************************************************************************)
(* Text fields and float().  A text is "", a numeral of Numerals, "inf",   *)
(* or anything else, which float() rejects with ValueError.                *)
(***************************************************************************)
Numerals ==
    ( "0" :> <<0, 1>> ) @@ ( "0.5" :> <<5, 10>> ) @@ ( "1.5" :> <<15, 10>> ) @@
    ( "0.84" :> <<84, 100>> ) @@ ( "0.9" :> <<9, 10>> ) @@
    ( "10" :> <<10, 1>> ) @@ ( "14.7" :> <<147, 10>> ) @@
    ( "200" :> <<200, 1>> ) @@ ( "999.9" :> <<9999, 10>> ) @@
    ( "1500" :> <<1500, 1>> ) @@
    ( "50" :> <<50, 1>> ) @@ ( "60" :> <<60, 1>> ) @@ ( "inf" :> <<1, 0>> )

FieldNames == {"SG", "P", "T", "y_H2S", "y_CO2", "y_N2"}

MoleTexts == {"", "abc", "0", "0.5", "1.5"}

Texts ==
    ( "SG" :> {"", "abc", "0.5", "0.84", "0.9"} ) @@
    ( "P" :> {"", "abc", "10", "14.7", "200", "999.9", "1500", "inf"} ) @@
    ( "T" :> {"", "abc", "50", "60"} ) @@
    ( "y_H2S" :> MoleTexts ) @@
    ( "y_CO2" :> {"", "0", "0.5"} ) @@ ( "y_N2" :> {"", "0", "0.5"} )

\* Python values held by SG, P and T: the empty str (an untouched field),
\* None (a rejected entry) or a float n/d.
PyStr == [k |-> "str", n |-> 0, d |-> 1]

PyNone == [k |-> "None", n |-> 0, d |-> 1]

PyFloat(n, d) == [k |-> "float", n |-> n, d |-> d]

Parses(text) == text \in DOMAIN Numerals

float(text) == PyFloat(Numerals[text][1], Numerals[text][2])

\* x < n/d and x <= n/d for a parsed float x (d = 0 is +infinity).
LessThan(x, n, d) == x.d # 0 /\ x.n * d < n * x.d

AtMost(x, n, d) == x.d # 0 /\ x.n * d <= n * x.d

\* The float a parsed numeral stands for, tabulated over Numerals.
FloatOf == [t \in DOMAIN Numerals |-> Lit(Numerals[t][1], Numerals[t][2])]

AsFloat(x) == Lit(x.n, x.d)

(***************************************************************************)
(* Lines 31-69: validation of Gas Gravity, Pressure and Temperature.       *)
(***************************************************************************)
Validate_SG(text) ==
    IF text = "" THEN [val |-> PyStr, err |-> {}]
    ELSE IF ~Parses(text)
         THEN [val |-> PyNone, err |-> {"Please enter a valid number for Gas Gravity"}]
    ELSE IF ~(~LessThan(float(text), 55, 100) /\ AtMost(float(text), 1, 1))
         THEN [val |-> PyNone, err |-> {"Gas Gravity must be between 0.55 and 1.0"}]
    ELSE [val |-> float(text), err |-> {}]

Validate_P(text) ==
    IF text = "" THEN [val |-> PyStr, err |-> {}]
    ELSE IF ~Parses(text)
         THEN [val |-> PyNone, err |-> {"Please enter a valid number for Pressure."}]
    ELSE IF LessThan(float(text), 147, 10)
         THEN [val |-> PyNone,
               err |-> {"Pressure must be equal to or above pressure at standard conditions (14.7 psi)."}]
    ELSE [val |-> float(text), err |-> {}]

Validate_T(text) ==
    IF text = "" THEN [val |-> PyStr, err |-> {}]
    ELSE IF ~Parses(text)
         THEN [val |-> PyNone, err |-> {"Please enter a valid number for Temperature."}]
    ELSE IF LessThan(float(text), 60, 1)
         THEN [val |-> PyNone,
               err |-> {"Temperature must be equal to or above temperature at standard conditions (60 deg F)."}]
    ELSE [val |-> float(text), err |-> {}]

(***************************************************************************)
(* Lines 76-108: the three mole fractions start at 0 and keep 0 when the   *)
(* field is empty, does not parse, or is outside [0, 1].                   *)
(***************************************************************************)
Validate_y(text, name) ==
    IF text = "" THEN [val |-> Zero, err |-> {}]
    ELSE IF ~Parses(text)
         THEN [val |-> Zero, err |-> {"Please enter a valid number for " \o name}]
    ELSE IF ~(~LessThan(float(text), 0, 1) /\ AtMost(float(text), 1, 1))
         THEN [val |-> Zero, err |-> {name \o " must be between 0 and 1"}]
    ELSE [val |-> FloatOf[text], err |-> {}]

\* Lines 110-115.
SumError == "The sum of H2S, CO2, and N2 contents must not exceed 1."

Lines110_115(h2s, co2, n2) ==
    LET total_mole_frac == Fadd(Fadd(h2s, co2), n2)
    IN  [total_mole_frac |-> total_mole_frac,
         err |-> IF Fless(One, total_mole_frac) THEN {SumError} ELSE {}]

(***************************************************************************)
(* Lines 128-140: Zfac.  scipy's fsolve is not part of the repository: its *)
(* result is a fixed function of its arguments that the script does not    *)
(* determine.  It is modelled by a table from the case of the arguments    *)
(* (reduced pressure below 1, or not) to the kind of result: "root" (it    *)
(* converged to y with fy(y) = 0 and 0 < y < 1), "outside" (it returned    *)
(* y <= 0 or y >= 1) or "stalled" (it returned without converging; fsolve  *)
(* then only emits a warning).  With a non-finite argument fy is never 0,  *)
(* so there is nothing to converge to.  alpha needs exp(), so the value    *)
(* alpha * Ppr / y is kept as its operands: t, Ppr and the kind of y.      *)
(***************************************************************************)
FsolveCases == {"low", "high"}

FsolveKinds == {"root", "outside", "stalled"}

FsolveTables == [FsolveCases -> FsolveKinds]

Undef == [k |-> "undef", m |-> 0, e |-> 0]

NoZ == [t |-> Undef, Ppr |-> Undef, y |-> "none"]

fsolve(t, Ppr, tbl) ==
    IF t.k # "fin" \/ Ppr.k # "fin" THEN "stalled"
    ELSE tbl[IF Fless(Ppr, One) THEN "low" ELSE "high"]

Zfac(Tpr, Ppr, tbl) ==
    LET t == Fdiv(One, Tpr)
        y == fsolve(t, Ppr, tbl)
    IN  [t |-> t, Ppr |-> Ppr, y |-> y]

(***************************************************************************)
(* Lines 172-176 and 187-188: the sweep.  Pressures are in tenths of a psi.*)
(***************************************************************************)
\* int(P + 1000) for a finite P = n/d >= 14.7.
IntPPlus1000(P) == (P.n + 1000 * P.d) \div P.d

\* Pressures with the "+ 1" of the range's stop forgotten.
Pressures_exclusiveStop(P) ==
    LET stop  == IntPPlus1000(P)
        count == IF stop <= 200 THEN 0 ELSE (stop - 200 + 199) \div 200
    IN  <<147>> \o [i \in 1..count |-> 10 * (200 + 200 * (i - 1))]

\* [14.7] + [i for i in range(200, int(P + 1000) + 1, 200)]
Pressures(P) ==
    LET stop  == IntPPlus1000(P) + 1
        count == IF stop <= 200 THEN 0 ELSE (stop - 200 + 199) \div 200
    IN  <<147>> \o [i \in 1..count |-> 10 * (200 + 200 * (i - 1))]

\* Sweep_Z with the two pseudo-critical divisors swapped.
Sweep_Z_swapped(p, T_rankine, Tpc_corr, Ppc_corr, tbl) ==
    Zfac(Fdiv(T_rankine, Ppc_corr), Fdiv(Lit(p, 10), Tpc_corr), tbl)

\* One element of z_factors: Zfac(T_rankine / Tpc_corr, p / Ppc_corr).
Sweep_Z(p, T_rankine, Tpc_corr, Ppc_corr, tbl) ==
    Zfac(Fdiv(T_rankine, Tpc_corr), Fdiv(Lit(p, 10), Ppc_corr), tbl)

\* Highlight selecting with >= instead of ==.
RECURSIVE Highlight_atLeast(_, _, _)
Highlight_atLeast(pressures, P, i) ==
    IF i > Len(pressures) THEN << >>
    ELSE (IF pressures[i] * P.d >= 10 * P.n THEN <<i>> ELSE << >>)
         \o Highlight_atLeast(pressures, P, i + 1)

\* df[df['Pressure (psi)'] == P]: the rows whose pressure equals P.
RECURSIVE Highlight(_, _, _)
Highlight(pressures, P, i) ==
    IF i > Len(pressures) THEN << >>
    ELSE (IF pressures[i] * P.d = 10 * P.n THEN <<i>> ELSE << >>)
         \o Highlight(pressures, P, i + 1)

(***************************************************************************)
(* One execution of the script (lines 31-200) on the field texts flds,     *)
(* with st.button returning clicked.  The result records the script's      *)
(* variables and what it displayed; "ran" holds the line numbers of the    *)
(* statements it reached, "exc" the exception that ended it, if any.       *)
(***************************************************************************)
NoExc == [type |-> "none", line |-> 0]

Exc(type, line) == [type |-> type, line |-> line]

\* Lines 145-157.
Missing_inputs(SG, P, T, flds) ==
    (IF SG.k = "None" THEN <<"Gas Gravity">> ELSE << >>) \o
    (IF P.k = "None" THEN <<"Pressure">> ELSE << >>) \o
    (IF T.k = "None" THEN <<"Temperature">> ELSE << >>) \o
    (IF flds["y_H2S"] = "" THEN <<"H2S content">> ELSE << >>) \o
    (IF flds["y_CO2"] = "" THEN <<"CO2 content">> ELSE << >>) \o
    (IF flds["y_N2"] = "" THEN <<"N2 content">> ELSE << >>)

\* Lines 125-126 given the values of lines 120-124.
Lines125_126(Tpc, Ppc, e, Tpc_corr, h2s) ==
    [Tpc |-> Tpc, Ppc |-> Ppc, e |-> e, Tpc_corr |-> Tpc_corr,
     Ppc_corr |-> Corr_Ppc(Ppc, Tpc, Tpc_corr, h2s)]

\* Lines 124-126 given Tpc and Ppc of lines 120-121.
Lines124_126(Tpc, Ppc, e, h2s) == Lines125_126(Tpc, Ppc, e, Corr_Tpc(Tpc, e), h2s)

\* Lines 120-126 for a float SG and the three mole fractions.
Lines120_126(SG, h2s, co2, n2) ==
    Lines124_126(Sutton_Tpc(AsFloat(SG)), Sutton_Ppc(AsFloat(SG)),
                 WichertAziz_e(h2s, co2, n2), h2s)

\* Lines 163-169 for floats P and T: the headline Z.
Lines163_169(P, T, Tpc_corr, Ppc_corr, tbl) ==
    LET T_rankine == Fadd(AsFloat(T), K459_67)
        Pr == Fdiv(AsFloat(P), Ppc_corr)
        Tr == Fdiv(T_rankine, Tpc_corr)
    IN  Zfac(Tr, Pr, tbl)

\* Lines 173-176 for a finite P: the sweep.
Lines173_176(P, T, Tpc_corr, Ppc_corr, tbl) ==
    LET T_rankine == Fadd(AsFloat(T), K459_67)
        pressures == Pressures(P)
    IN  [pressures |-> pressures,
         z_factors |-> [i \in 1..Len(pressures) |->
                          Sweep_Z(pressures[i], T_rankine, Tpc_corr, Ppc_corr, tbl)]]

\* The values the fields of Texts can give the script's variables, and the
\* three blocks above as functions over them (TLC evaluates each once).
GravityValues == {Validate_SG(t).val : t \in Texts["SG"]} \ {PyStr, PyNone}

PressureValues == {Validate_P(t).val : t \in Texts["P"]} \ {PyStr, PyNone}

TemperatureValues == {Validate_T(t).val : t \in Texts["T"]} \ {PyStr, PyNone}

FractionValues == {Validate_y(t, "").val : t \in MoleTexts}

Totals ==
    [h2s \in FractionValues, co2 \in FractionValues, n2 \in FractionValues |->
        Lines110_115(h2s, co2, n2)]

Correlate ==
    [SG \in GravityValues, h2s \in FractionValues, co2 \in FractionValues,
     n2 \in FractionValues |-> Lines120_126(SG, h2s, co2, n2)]

CorrectedValues ==
    {<<c.Tpc_corr, c.Ppc_corr>> :
        c \in {Correlate[x] : x \in GravityValues \X FractionValues \X FractionValues
                                        \X FractionValues}}

Headline ==
    [P \in PressureValues, T \in TemperatureValues, c \in CorrectedValues,
     tbl \in FsolveTables |-> Lines163_169(P, T, c[1], c[2], tbl)]

Sweep ==
    [P \in {x \in PressureValues : x.d # 0}, T \in TemperatureValues,
     c \in CorrectedValues, tbl \in FsolveTables |->
        Lines173_176(P, T, c[1], c[2], tbl)]

\* Lines 31-115: the six validations and the sum of the mole fractions.
Vars115(clicked, vSG, vP, vT, vH, vC, vN, total) ==
    [clicked |-> clicked, SG |-> vSG.val, P |-> vP.val, T |-> vT.val,
     y_H2S_val |-> vH.val, y_CO2_val |-> vC.val, y_N2_val |-> vN.val,
     total_mole_frac |-> total.total_mole_frac,
     errors |-> vSG.err \cup vP.err \cup vT.err \cup vH.err \cup vC.err
                \cup vN.err \cup total.err,
     Tpc |-> Undef, Ppc |-> Undef, e |-> Undef,
     Tpc_corr |-> Undef, Ppc_corr |-> Undef,
     warning |-> << >>, z_factor |-> NoZ,
     pressures |-> << >>, z_factors |-> << >>,
     highlight_point |-> << >>, table |-> FALSE, chart |-> FALSE,
     ran |-> {31, 120}, exc |-> NoExc]

Lines31_115(flds, clicked) ==
    Vars115(clicked, Validate_SG(flds["SG"]), Validate_P(flds["P"]),
            Validate_T(flds["T"]),
            Validate_y(flds["y_H2S"], "H2S content"),
            Validate_y(flds["y_CO2"], "CO2 content"),
            Validate_y(flds["y_N2"], "N2 content"),
            Totals[Validate_y(flds["y_H2S"], "H2S content").val,
                   Validate_y(flds["y_CO2"], "CO2 content").val,
                   Validate_y(flds["y_N2"], "N2 content").val])

\* The variables r with the results c of lines 120-126.
Vars126(r, c) ==
    [r EXCEPT !.Tpc = c.Tpc, !.Ppc = c.Ppc, !.e = c.e,
              !.Tpc_corr = c.Tpc_corr, !.Ppc_corr = c.Ppc_corr,
              !.ran = @ \cup {126, 143}]

\* Lines 163-169: the headline Z.
Vars170(r, tbl) ==
    [r EXCEPT !.z_factor = Headline[r.P, r.T, <<r.Tpc_corr, r.Ppc_corr>>, tbl],
              !.ran = @ \cup {145, 163, 166, 169, 173}]

\* The variables r with the sweep sw of lines 173-176, the table of line 182
\* and the rows selected on lines 187-188.
Vars188(r, sw) ==
    [r EXCEPT !.pressures = sw.pressures,
              !.z_factors = sw.z_factors,
              !.table = TRUE,
              !.highlight_point = Highlight(sw.pressures, r.P, 1),
              !.ran = @ \cup {176, 182, 188, 195}]

\* Lines 195-200: highlight_point['Z-factor'].values[0] raises IndexError
\* when no row was selected, before the chart is plotted.
Lines195_200(r) ==
    IF r.highlight_point = << >> THEN [r EXCEPT !.exc = Exc("IndexError", 195)]
    ELSE [r EXCEPT !.chart = TRUE, !.ran = @ \cup {200}]

\* Lines 173-200: int(P + 1000) raises OverflowError on infinity.
Lines173_200(r, tbl) ==
    IF r.P.d = 0 THEN [r EXCEPT !.exc = Exc("OverflowError", 173)]
    ELSE Lines195_200(Vars188(r, Sweep[r.P, r.T, <<r.Tpc_corr, r.Ppc_corr>>, tbl]))

\* Lines 145-200, the body of "if st.button(...)": T + 459.67 and
\* P / Ppc_corr raise TypeError on a str.
Lines145_200(r, flds, tbl) ==
    IF Missing_inputs(r.SG, r.P, r.T, flds) # << >>
    THEN [r EXCEPT !.warning = Missing_inputs(r.SG, r.P, r.T, flds),
                   !.ran = @ \cup {145, 160}]
    ELSE IF r.T.k # "float"
         THEN [r EXCEPT !.ran = @ \cup {145, 163}, !.exc = Exc("TypeError", 163)]
    ELSE IF r.P.k # "float"
         THEN [r EXCEPT !.ran = @ \cup {145, 163, 166}, !.exc = Exc("TypeError", 166)]
    ELSE Lines173_200(Vars170(r, tbl), tbl)

\* Line 143 on.
Lines143_200(r, flds, clicked, tbl) ==
    IF ~clicked THEN r ELSE Lines145_200(r, flds, tbl)

\* Line 120 on: 349.5 * SG raises TypeError unless SG is a float.
Lines120_200(r, flds, clicked, tbl) ==
    IF r.SG.k # "float" THEN [r EXCEPT !.exc = Exc("TypeError", 120)]
    ELSE Lines143_200(Vars126(r, Correlate[r.SG, r.y_H2S_val, r.y_CO2_val, r.y_N2_val]),
                      flds, clicked, tbl)

RunScript(flds, clicked, tbl) ==
    Lines120_200(Lines31_115(flds, clicked), flds, clicked, tbl)

(***************************************************************************)
(* The session: the page is loaded with every field empty, then the user   *)
(* edits a field (Streamlit reruns the script with the button not clicked) *)
(* or clicks "Calculate Z-factor" (it reruns the script with the button    *)
(* returning True).                                                        *)
(***************************************************************************)
AnyTable == [c \in FsolveCases |-> "root"]

Init ==
    /\ fields = [f \in FieldNames |-> ""]
    /\ run = RunScript(fields, FALSE, AnyTable)

Edit ==
    \E f \in FieldNames : \E text \in Texts[f] :
        /\ text # fields[f]
        /\ fields' = [fields EXCEPT ![f] = text]
        /\ run' = RunScript(fields', FALSE, AnyTable)

\* The button exists on the page only if the last run reached line 143.
Calculate ==
    \E tbl \in FsolveTables :
        /\ 143 \in run.ran
        /\ run' = RunScript(fields, TRUE, tbl)
        /\ UNCHANGED fields

Next == Edit \/ Calculate

Spec == Init /\ [][Next]_vars

(***************************************************************************)
(* Properties.                                                             *)
(***************************************************************************)
\* The last run called Zfac for the headline value (line 169).
Computed == run.z_factor # NoZ

\* The last run built the sweep (lines 173-176).
SweepBuilt == run.pressures # << >>

MoleFields == {"y_H2S", "y_CO2", "y_N2"}

\* The sample pressure s (tenths of a psi) equals the float P exactly.
SameAsP(s) == s * run.P.d = 10 * run.P.n

\* The sweep of the claim C1: 14.7, then the multiples of 200 up to the first
\* one that is >= P + 1000.
ClaimedSweep(P) ==
    LET k == ((P.n + 1000 * P.d) + 200 * P.d - 1) \div (200 * P.d)
    IN  <<147>> \o [i \in 1..k |-> 2000 * i]

\* C1 as stated: whenever the sweep is built, its pressures are 14.7 followed
\* by every multiple of 200 from 200 up to and including the first multiple of
\* 200 that is >= P + 1000.
C1_SweepEndsAtFirstMultipleAbove == SweepBuilt => run.pressures = ClaimedSweep(run.P)

\* C1 as amended: whenever the sweep is built, its pressures are 14.7 followed
\* by every multiple of 200 from 200 up to and including the last multiple of
\* 200 that is <= P + 1000 (so the next multiple of 200 exceeds P + 1000).
C1_SweepEndsAtLastMultipleBelow ==
    SweepBuilt =>
        LET ps == run.pressures
            n  == Len(ps)
            limit == 10 * (run.P.n + 1000 * run.P.d)
        IN  /\ n >= 2
            /\ ps[1] = 147
            /\ \A i \in 2..n : ps[i] = 2000 * (i - 1)
            /\ ps[n] * run.P.d <= limit
            /\ (ps[n] + 2000) * run.P.d > limit

\* C1 witness: the sweep for P = 1500 was built and ends at 2400.
C1_Witness ==
    /\ SweepBuilt
    /\ run.P = PyFloat(1500, 1)
    /\ run.pressures[Len(run.pressures)] = 24000

\* C2 as stated: when no sample pressure equals P, the run completes normally
\* with the table and the chart produced.
C2_NoMatchCompletes ==
    (SweepBuilt /\ run.highlight_point = << >>) =>
        (run.exc = NoExc /\ run.table /\ run.chart)

\* C3 as stated: a run reaches the pseudo-critical formulas of line 120 only
\* with SG holding a parsed number in [0.55, 1.0].
C3_CorrelationOnlyOnValidGravity ==
    120 \in run.ran =>
        /\ run.SG.k = "float"
        /\ ~LessThan(run.SG, 55, 100)
        /\ AtMost(run.SG, 1, 1)

\* SG, P and T hold parsed numbers and the three mole-fraction fields are filled.
InputsComplete ==
    /\ run.SG.k = "float" /\ run.P.k = "float" /\ run.T.k = "float"
    /\ \A f \in MoleFields : fields[f] # ""

\* C4 as stated: after a click, Zfac and the sweep run only with complete
\* inputs; otherwise a warning naming the missing inputs is shown and no Z is
\* computed.
C4_ClickWarnsOrComputes ==
    run.clicked =>
        /\ (Computed \/ SweepBuilt) => InputsComplete
        /\ ~InputsComplete => (run.warning # << >> /\ ~Computed)

\* C5 as stated: whenever the Z-factor computation runs, the mole fractions it
\* uses sum to at most 1.
C5_ComputesOnlyWithSumAtMostOne == Computed => ~Fless(One, run.total_mole_frac)

\* A mole-fraction text that the script accepts as the user's value.
AcceptedFraction(text) ==
    /\ Parses(text)
    /\ ~LessThan(float(text), 0, 1)
    /\ AtMost(float(text), 1, 1)

\* C6 as stated: the Z-factor computation never runs with a mole-fraction
\* entry that failed to parse or lies outside [0, 1].
C6_ComputesOnlyWithAcceptedFractions ==
    Computed => \A f \in MoleFields : AcceptedFraction(fields[f])

\* Every Z the last run obtained from Zfac.
ReturnedZ == (IF Computed THEN {run.z_factor} ELSE {})
             \cup {run.z_factors[i] : i \in 1..Len(run.z_factors)}

\* C7 as stated: Zfac returns a Z only when the root-finder converged to a
\* root y with 0 < y < 1.
C7_ZOnlyFromConvergedRoot == \A z \in ReturnedZ : z.y = "root"

\* C8 as stated: with the three mole fractions 0, the correction term e is 0
\* and Tpc_corr = Tpc, Ppc_corr = Ppc.
C8_ZeroContaminationNoOp ==
    (/\ 126 \in run.ran
     /\ run.y_H2S_val = Zero /\ run.y_CO2_val = Zero /\ run.y_N2_val = Zero) =>
        (run.e = Zero /\ run.Tpc_corr = run.Tpc /\ run.Ppc_corr = run.Ppc)

\* P is an integer multiple of 200.
MultipleOf200 == run.P.n % (200 * run.P.d) = 0

\* C9: whenever the sweep is built its pressures are strictly increasing, the
\* highlight lookup matches at most one row, and it matches exactly one row
\* if and only if P = 14.7 or P is a multiple of 200.
C9_IncreasingAndAtMostOneMatch ==
    SweepBuilt =>
        /\ \A i \in 1..(Len(run.pressures) - 1) : run.pressures[i] < run.pressures[i + 1]
        /\ Len(run.highlight_point) <= 1
        /\ \A j \in 1..Len(run.highlight_point) : SameAsP(run.pressures[run.highlight_point[j]])
        /\ Len(run.highlight_point) = 1 <=> (run.P = PyFloat(147, 10) \/ MultipleOf200)

\* C9 witness: P = 200 matched the second row of the sweep.
C9_Witness == SweepBuilt /\ run.P = PyFloat(200, 1) /\ run.highlight_point = <<2>>

\* C10: whenever the sweep is built, every row was evaluated at the headline's
\* reduced temperature, and a row whose pressure equals P has the headline Z.
C10_SweepRowAtPEqualsHeadline ==
    SweepBuilt =>
        \A i \in 1..Len(run.pressures) :
            /\ run.z_factors[i].t = run.z_factor.t
            /\ SameAsP(run.pressures[i]) => run.z_factors[i] = run.z_factor

\* C10 witness: with H2S present (so that Ppc_corr differs from Ppc), the
\* first row of the sweep is the input pressure 14.7.
C10_Witness ==
    /\ SweepBuilt
    /\ run.highlight_point = <<1>>
    /\ run.y_H2S_val # Zero
    /\ run.Ppc_corr # run.Ppc

====
